---- MODULE Spec2Model ----
(***************************************************************************)
(* The form field-state and validation engine of vikingship:               *)
(*   useStore   (src/unnamed/part_000)  the field store reducer, the rule  *)
(*              resolver, validateField and validateAllFields              *)
(*   FormItem   (src/unnamed/part_001)  registration and the change and    *)
(*              blur handlers                                              *)
(*   Form       (src/src/components/Form/form.tsx)  submitForm             *)
(*                                                                         *)
(* JavaScript values are modelled as follows.  An object is a function     *)
(* over its keys, so that an object with a key missing is a function with  *)
(* a smaller domain.  A field value is a string; an array of validation    *)
(* errors is the sequence of their messages.  `undefined` is the string    *)
(* Undefined where a value is expected, UndefinedList where an array is    *)
(* expected and UndefinedMap where a name -> errors mapping is expected.   *)
(*                                                                         *)
(* An action is one task of the event loop.  React re-renders after the    *)
(* state updates of a task, so a handler always starts from the latest     *)
(* fields and form; what a handler read before an await is kept in its     *)
(* pending call and used unchanged after the await.                        *)
(***************************************************************************)
EXTENDS Integers, Sequences, FiniteSets, TLC

VARIABLES
    fields,     \* useReducer(fieldsReducer, {}): name -> FieldDetail
    form,       \* useState<FormState>
    props,      \* the props of <Form>: initialValues, onFinish, onFinishFailed
                \* and children (name -> the props of that <FormItem>)
    pending,    \* call number -> the async call suspended at its await
    ev          \* what the last step handed to its caller

vars == <<fields, form, props, pending, ev>>

----------------------------------------------------------------------------
(* Bounds and input sets *)

\* How many validateField / validateAllFields calls a run makes.
MaxCalls == 2

Slots == 1..MaxCalls

\* The names the form items and the ref's callers use; no item is named g.
Names == {"p", "c", "n", "g"}

\* The values a control can hold.
Values == {"", "x"}

Undefined == "undefined"

UndefinedList == <<Undefined>>

UndefinedMap == [undefined |-> UndefinedList]

----------------------------------------------------------------------------
(* JavaScript objects *)

EmptyObject == [k \in {} |-> Undefined]

\* { ...o, ...s }
Spread(o, s) ==
    [k \in (DOMAIN o) \cup (DOMAIN s) |-> IF k \in DOMAIN s THEN s[k] ELSE o[k]]

\* state[name] as the operand of a spread: spreading undefined adds no key.
Lookup(state, name) ==
    IF name \in DOMAIN state THEN state[name] ELSE EmptyObject

\* o.k, which is undefined when the key is missing.
Prop(o, k, undef) == IF k \in DOMAIN o THEN o[k] ELSE undef


----------------------------------------------------------------------------
(* The field store *)

\* A variant of fieldsReducer whose addField keeps what the store already
\* holds for the name: { ...action.value, ...state[action.name] }.
fieldsReducerAddMerges(state, action) ==
    CASE action.type = "addField" ->
            Spread(state, (action.name :>
                Spread(action.value, Lookup(state, action.name))))
      [] action.type = "updateValue" ->
            Spread(state, (action.name :>
                Spread(Lookup(state, action.name), [value |-> action.value])))
      [] action.type = "updateValidateResult" ->
            Spread(state, (action.name :>
                Spread(Lookup(state, action.name),
                       [isValid |-> action.value.isValid,
                        errors |-> action.value.errors])))
      [] OTHER -> state

\* A variant of fieldsReducer whose updateValue also clears the field's
\* validation result.
fieldsReducerValueClears(state, action) ==
    CASE action.type = "addField" ->
            Spread(state, (action.name :> Spread(EmptyObject, action.value)))
      [] action.type = "updateValue" ->
            Spread(state, (action.name :>
                Spread(Lookup(state, action.name),
                       [value |-> action.value, isValid |-> TRUE,
                        errors |-> <<>>])))
      [] action.type = "updateValidateResult" ->
            Spread(state, (action.name :>
                Spread(Lookup(state, action.name),
                       [isValid |-> action.value.isValid,
                        errors |-> action.value.errors])))
      [] OTHER -> state

\* A variant of fieldsReducer whose updateValidateResult stores the result
\* in place of the record: [action.name]: { isValid, errors }.
fieldsReducerResultReplaces(state, action) ==
    CASE action.type = "addField" ->
            Spread(state, (action.name :> Spread(EmptyObject, action.value)))
      [] action.type = "updateValue" ->
            Spread(state, (action.name :>
                Spread(Lookup(state, action.name), [value |-> action.value])))
      [] action.type = "updateValidateResult" ->
            Spread(state, (action.name :>
                [isValid |-> action.value.isValid,
                 errors |-> action.value.errors]))
      [] OTHER -> state

fieldsReducer(state, action) ==
    CASE action.type = "addField" ->
            Spread(state, (action.name :> Spread(EmptyObject, action.value)))
      [] action.type = "updateValue" ->
            Spread(state, (action.name :>
                Spread(Lookup(state, action.name), [value |-> action.value])))
      [] action.type = "updateValidateResult" ->
            Spread(state, (action.name :>
                Spread(Lookup(state, action.name),
                       [isValid |-> action.value.isValid,
                        errors |-> action.value.errors])))
      [] OTHER -> state

----------------------------------------------------------------------------
(* Rules *)

\* A static RuleItem { required: true }.
Required == [required |-> TRUE]

\* A CustomRuleFunc ({ getFieldValue }) => ({ validator: value must equal
\* getFieldValue(other) }): the cross-field rule of a confirmation field.
EqualTo(other) == [function |-> "equalTo", other |-> other]

\* typeof rule === 'function'
IsFunction(rule) == "function" \in DOMAIN rule

----------------------------------------------------------------------------
(* The props of the form and of its items *)

\* <Form initialValues onFinish onFinishFailed> around a required item p and
\* an item c that must equal p.
ConfirmForm ==
    [initialValues |-> [p |-> "x", g |-> "x"],
     onFinish |-> TRUE,
     onFinishFailed |-> TRUE,
     children |-> [p |-> [label |-> "P", rules |-> <<Required>>],
                   c |-> [label |-> "C", rules |-> <<EqualTo("p")>>]]]

\* <Form> without props around a required item p and an item n that has
\* neither a label nor rules.
PlainForm ==
    [children |-> [p |-> [label |-> "P", rules |-> <<Required>>],
                   n |-> EmptyObject]]

PropsOptions == {ConfirmForm, PlainForm}

\* The props of the <FormItem> of that name.
ItemProps == props.children

\* The number 0 as a field value, next to the strings of Values.
Zero == "0 (number)"

\* The field values that are falsy.
Falsy == {"", Undefined, Zero}

\* a || b on field values.
OrElse(a, b) == IF a \in Falsy THEN b ELSE a

\* (initialValues && initialValues[name]) || ''
InitialValue(name) ==
    OrElse(Prop(Prop(props, "initialValues", EmptyObject), name, Undefined), "")

\* The record a FormItem registers when it mounts.
FieldRecord(name) ==
    [label |-> Prop(ItemProps[name], "label", Undefined),
     name |-> name,
     value |-> InitialValue(name),
     rules |-> Prop(ItemProps[name], "rules", <<>>),
     errors |-> <<>>,
     isValid |-> TRUE]

----------------------------------------------------------------------------
(* The rule resolver *)

\* A variant of getFieldValue that reads the value the field was registered
\* with.
getFieldValueInitial(fs, key) ==
    IF key \in DOMAIN fs THEN InitialValue(key) ELSE Undefined

\* fields[key] && fields[key].value, on the fields the closure holds.
getFieldValue(fs, key) ==
    IF key \in DOMAIN fs THEN Prop(fs[key], "value", Undefined) ELSE Undefined

\* rule({ getFieldValue }): what the rule generator returns.
CallRule(rule, fs) ==
    [validator |-> "equalTo", expected |-> getFieldValue(fs, rule.other)]

transfromRules(rules, fs) ==
    [i \in 1..Len(rules) |->
        IF IsFunction(rules[i]) THEN CallRule(rules[i], fs) ELSE rules[i]]

----------------------------------------------------------------------------
(* The validation engine (async-validator), by its contract *)

RequiredMessage == [p |-> "p is required", c |-> "c is required",
                    n |-> "n is required", g |-> "g is required"]

MismatchMessage == [p |-> "p does not match", c |-> "c does not match",
                    n |-> "n does not match", g |-> "g does not match"]

\* The errors one static rule reports for one value.
RuleErrors(rule, name, value) ==
    IF "required" \in DOMAIN rule
    THEN IF rule.required /\ value \in {"", Undefined}
         THEN <<RequiredMessage[name]>> ELSE <<>>
    ELSE IF "validator" \in DOMAIN rule
    THEN IF value # rule.expected
         THEN <<MismatchMessage[name]>> ELSE <<>>
    ELSE <<>>

RECURSIVE SeriesErrors(_, _, _, _)
\* The errors of rules[i..] for one field, in rule order.
SeriesErrors(rules, name, value, i) ==
    IF i > Len(rules) THEN <<>>
    ELSE RuleErrors(rules[i], name, value)
            \o SeriesErrors(rules, name, value, i + 1)

\* The errors of one field of the descriptor.
FieldErrors(descriptor, valueMap, name) ==
    SeriesErrors(descriptor[name], name,
                 Prop(valueMap, name, Undefined), 1)

\* The order in which the engine walks the descriptor's keys.
NameOrder == <<"p", "c", "n", "g">>

RECURSIVE FlatErrors(_, _, _)
\* AsyncValidationError.errors: every field's errors, one after the other.
FlatErrors(descriptor, valueMap, i) ==
    IF i > Len(NameOrder) THEN <<>>
    ELSE (IF NameOrder[i] \in DOMAIN descriptor
          THEN FieldErrors(descriptor, valueMap, NameOrder[i]) ELSE <<>>)
            \o FlatErrors(descriptor, valueMap, i + 1)

\* AsyncValidationError.fields: an entry for each field that failed, only.
ErrorFields(descriptor, valueMap) ==
    LET failed == {n \in DOMAIN descriptor :
                        FieldErrors(descriptor, valueMap, n) # <<>>}
    IN  [n \in failed |-> FieldErrors(descriptor, valueMap, n)]

\* How validator.validate(valueMap) settles: it resolves, or it rejects with
\* an AsyncValidationError carrying errors and fields.
Validate(descriptor, valueMap) ==
    LET flat == FlatErrors(descriptor, valueMap, 1)
    IN  IF flat = <<>>
        THEN [settled |-> "resolved"]
        ELSE [settled |-> "rejected", errors |-> flat,
              fields |-> ErrorFields(descriptor, valueMap)]

\* An unexpected fault of the engine call: an Error that carries neither
\* errors nor fields (validate throws on a descriptor it cannot run).
Fault == [settled |-> "rejected"]

\* Every way the engine call can settle.
Outcomes(descriptor, valueMap) == {Validate(descriptor, valueMap), Fault}

----------------------------------------------------------------------------
(* Suspended calls *)

\* A call number not used yet, and a call that has run to its end.
Idle == [op |-> "idle"]

Done == [op |-> "done"]

Free == {s \in Slots : pending[s] = Idle}

\* The slot a new call is suspended in.
NextSlot == CHOOSE s \in Free : \A t \in Free : s <= t

\* A step that hands nothing to its caller.
Quiet == [op |-> "none"]

----------------------------------------------------------------------------
(* Initial state: useStore's initial form and the empty field store *)

Init ==
    /\ fields = EmptyObject
    /\ form = [isValid |-> TRUE, isSubmitting |-> FALSE, errors |-> EmptyObject]
    /\ props \in PropsOptions
    /\ pending = [s \in Slots |-> Idle]
    /\ ev = Quiet

----------------------------------------------------------------------------
(* FormItem and the ref's setters *)

\* FormItem's mount effect.
Mount(name) ==
    /\ name \in DOMAIN props.children
    /\ fields' = fieldsReducer(fields,
            [type |-> "addField", name |-> name, value |-> FieldRecord(name)])
    /\ ev' = Quiet
    /\ UNCHANGED <<form, props, pending>>

\* FormItem's onValueUpdate, bound to the control's change event.
OnValueUpdate(name, value) ==
    /\ name \in DOMAIN props.children
    /\ name \in DOMAIN fields
    /\ fields' = fieldsReducer(fields,
            [type |-> "updateValue", name |-> name, value |-> value])
    /\ ev' = Quiet
    /\ UNCHANGED <<form, props, pending>>

\* What setFieldValue dispatches: nothing for a name that is not registered.
setFieldValue(state, name, value) ==
    IF name \in DOMAIN state
    THEN fieldsReducer(state,
            [type |-> "updateValue", name |-> name, value |-> value])
    ELSE state

SetFieldValue(name, value) ==
    /\ fields' = setFieldValue(fields, name, value)
    /\ ev' = Quiet
    /\ UNCHANGED <<form, props, pending>>

RECURSIVE resetFieldsFromUnguarded(_, _, _)
\* A variant of resetFieldsFrom without the test of fields[name].
resetFieldsFromUnguarded(state, closed, i) ==
    IF i > Len(NameOrder) THEN state
    ELSE LET name == NameOrder[i]
             inits == Prop(props, "initialValues", EmptyObject)
         IN  resetFieldsFromUnguarded(
                IF name \in DOMAIN inits
                THEN fieldsReducer(state, [type |-> "updateValue",
                        name |-> name, value |-> inits[name]])
                ELSE state,
                closed, i + 1)

RECURSIVE resetFieldsFrom(_, _, _)
\* each(initialValues, ...) from the i-th name on; the guard reads the fields
\* of the closure (closed), the dispatches apply to the store (state).
resetFieldsFrom(state, closed, i) ==
    IF i > Len(NameOrder) THEN state
    ELSE LET name == NameOrder[i]
             inits == Prop(props, "initialValues", EmptyObject)
         IN  resetFieldsFrom(
                IF name \in DOMAIN inits /\ name \in DOMAIN closed
                THEN fieldsReducer(state, [type |-> "updateValue",
                        name |-> name, value |-> inits[name]])
                ELSE state,
                closed, i + 1)

ResetFields ==
    /\ fields' = resetFieldsFrom(fields, fields, 1)
    /\ ev' = [op |-> "resetFields",
              changed |-> {name \in DOMAIN fields :
                              fields'[name].value # fields[name].value}]
    /\ UNCHANGED <<form, props, pending>>

----------------------------------------------------------------------------
(* validateField *)

\* What validateField has built when it reaches its await: the descriptor
\* and the value map of the one field, from the fields of the closure.
validateFieldCall(fs, name) ==
    [op |-> "validateField",
     name |-> name,
     descriptor |-> (name :> transfromRules(fs[name].rules, fs)),
     valueMap |-> (name :> fs[name].value)]

\* A variant of validateFieldCatch that rethrows what is no validation error.
validateFieldCatchRethrow(e) ==
    IF e.settled = "resolved"
    THEN [isValid |-> TRUE, errors |-> <<>>, raised |-> FALSE]
    ELSE IF "errors" \in DOMAIN e
    THEN [isValid |-> FALSE, errors |-> e.errors, raised |-> FALSE]
    ELSE [isValid |-> FALSE, errors |-> <<>>, raised |-> TRUE]

\* A variant of validateFieldCatch that does not take the errors over.
validateFieldCatchNoErrors(e) ==
    IF e.settled = "resolved"
    THEN [isValid |-> TRUE, errors |-> <<>>, raised |-> FALSE]
    ELSE [isValid |-> FALSE, errors |-> <<>>, raised |-> FALSE]

\* try { await validate } catch (e) { isValid = false; errors = e.errors }:
\* the isValid and errors the finally block dispatches, and whether an
\* exception leaves the function.
validateFieldCatch(e) ==
    IF e.settled = "resolved"
    THEN [isValid |-> TRUE, errors |-> <<>>, raised |-> FALSE]
    ELSE [isValid |-> FALSE,
          errors |-> Prop(e, "errors", UndefinedList),
          raised |-> FALSE]

\* A variant of ValidateFieldStart that validates a name that is not
\* registered as a field without value and rules.
ValidateFieldStartLenient(name) ==
    /\ Free # {}
    /\ pending' = [pending EXCEPT ![NextSlot] =
            IF name \in DOMAIN fields THEN validateFieldCall(fields, name)
            ELSE [op |-> "validateField", name |-> name,
                  descriptor |-> (name :> <<>>),
                  valueMap |-> (name :> Undefined)]]
    /\ ev' = Quiet
    /\ UNCHANGED <<fields, form, props>>

\* validateField(name) up to its await.  Destructuring fields[name] of a
\* name that is not registered throws before anything is built.
ValidateFieldStart(name) ==
    \/ /\ name \notin DOMAIN fields
       /\ ev' = [op |-> "validateField.throw", name |-> name, raised |-> TRUE]
       /\ UNCHANGED <<fields, form, props, pending>>
    \/ /\ name \in DOMAIN fields
       /\ Free # {}
       /\ pending' = [pending EXCEPT ![NextSlot] = validateFieldCall(fields, name)]
       /\ ev' = Quiet
       /\ UNCHANGED <<fields, form, props>>

\* A variant of ValidateFieldSettle that dispatches at the end of the try
\* block: nothing is stored when the engine rejects.
ValidateFieldSettleResolvedOnly(s) ==
    /\ pending[s].op = "validateField"
    /\ \E e \in Outcomes(pending[s].descriptor, pending[s].valueMap) :
         LET r == validateFieldCatch(e)
             action == [type |-> "updateValidateResult",
                        name |-> pending[s].name,
                        value |-> [isValid |-> r.isValid, errors |-> r.errors]]
             dispatched == IF e.settled = "resolved" THEN <<action>> ELSE <<>>
         IN  /\ fields' = IF dispatched = <<>> THEN fields
                        ELSE fieldsReducer(fields, dispatched[1])
             /\ ev' = [op |-> "validateField.return", name |-> pending[s].name,
                       slot |-> s, call |-> pending[s], outcome |-> e,
                       raised |-> r.raised, dispatched |-> dispatched]
    /\ pending' = [pending EXCEPT ![s] = Done]
    /\ UNCHANGED <<form, props>>

\* A variant of ValidateFieldSettle that drops the result of a call whose
\* value is no longer the field's.
ValidateFieldSettleDropsStale(s) ==
    /\ pending[s].op = "validateField"
    /\ \E e \in Outcomes(pending[s].descriptor, pending[s].valueMap) :
         LET r == validateFieldCatch(e)
             action == [type |-> "updateValidateResult",
                        name |-> pending[s].name,
                        value |-> [isValid |-> r.isValid, errors |-> r.errors]]
             dispatched == IF pending[s].name \in DOMAIN fields
                              /\ "value" \in DOMAIN fields[pending[s].name]
                              /\ fields[pending[s].name].value =
                                    pending[s].valueMap[pending[s].name]
                           THEN <<action>> ELSE <<>>
         IN  /\ fields' = IF dispatched = <<>> THEN fields
                        ELSE fieldsReducer(fields, dispatched[1])
             /\ ev' = [op |-> "validateField.return", name |-> pending[s].name,
                       slot |-> s, call |-> pending[s], outcome |-> e,
                       raised |-> r.raised, dispatched |-> dispatched]
    /\ pending' = [pending EXCEPT ![s] = Done]
    /\ UNCHANGED <<form, props>>

\* A variant of ValidateFieldSettle that also marks the form invalid when
\* the field fails.
ValidateFieldSettleMarksForm(s) ==
    /\ pending[s].op = "validateField"
    /\ \E e \in Outcomes(pending[s].descriptor, pending[s].valueMap) :
         LET r == validateFieldCatch(e)
             action == [type |-> "updateValidateResult",
                        name |-> pending[s].name,
                        value |-> [isValid |-> r.isValid, errors |-> r.errors]]
             dispatched == <<action>>
         IN  /\ fields' = fieldsReducer(fields, action)
             /\ ev' = [op |-> "validateField.return", name |-> pending[s].name,
                       slot |-> s, call |-> pending[s], outcome |-> e,
                       raised |-> r.raised, dispatched |-> dispatched]
             /\ form' = [form EXCEPT !.isValid = form.isValid /\ r.isValid]
    /\ pending' = [pending EXCEPT ![s] = Done]
    /\ UNCHANGED props

\* A variant of ValidateFieldSettle that keeps the rules it resolved for the
\* engine in the field's record.
ValidateFieldSettleStoresResolved(s) ==
    /\ pending[s].op = "validateField"
    /\ \E e \in Outcomes(pending[s].descriptor, pending[s].valueMap) :
         LET r == validateFieldCatch(e)
             action == [type |-> "updateValidateResult",
                        name |-> pending[s].name,
                        value |-> [isValid |-> r.isValid, errors |-> r.errors]]
             dispatched == <<action>>
             stored == fieldsReducer(fields, action)
         IN  /\ fields' = [stored EXCEPT ![pending[s].name].rules =
                            pending[s].descriptor[pending[s].name]]
             /\ ev' = [op |-> "validateField.return", name |-> pending[s].name,
                       slot |-> s, call |-> pending[s], outcome |-> e,
                       raised |-> r.raised, dispatched |-> dispatched]
    /\ pending' = [pending EXCEPT ![s] = Done]
    /\ UNCHANGED <<form, props>>

\* A variant of ValidateFieldSettle that also clears the result of every
\* other field.
ValidateFieldSettleClearsOthers(s) ==
    /\ pending[s].op = "validateField"
    /\ \E e \in Outcomes(pending[s].descriptor, pending[s].valueMap) :
         LET r == validateFieldCatch(e)
             action == [type |-> "updateValidateResult",
                        name |-> pending[s].name,
                        value |-> [isValid |-> r.isValid, errors |-> r.errors]]
             dispatched == <<action>>
             stored == fieldsReducer(fields, action)
         IN  /\ fields' = [n \in DOMAIN stored |->
                            IF n = pending[s].name THEN stored[n]
                            ELSE Spread(stored[n], [isValid |-> TRUE,
                                                    errors |-> <<>>])]
             /\ ev' = [op |-> "validateField.return", name |-> pending[s].name,
                       slot |-> s, call |-> pending[s], outcome |-> e,
                       raised |-> r.raised, dispatched |-> dispatched]
    /\ pending' = [pending EXCEPT ![s] = Done]
    /\ UNCHANGED <<form, props>>

\* A variant of ValidateFieldSettle that writes the value it validated back
\* with the result.
ValidateFieldSettleWritesValue(s) ==
    /\ pending[s].op = "validateField"
    /\ \E e \in Outcomes(pending[s].descriptor, pending[s].valueMap) :
         LET r == validateFieldCatch(e)
             action == [type |-> "updateValidateResult",
                        name |-> pending[s].name,
                        value |-> [isValid |-> r.isValid, errors |-> r.errors]]
             dispatched == <<action>>
             stored == fieldsReducer(fields, action)
         IN  /\ fields' = [stored EXCEPT ![pending[s].name].value =
                            pending[s].valueMap[pending[s].name]]
             /\ ev' = [op |-> "validateField.return", name |-> pending[s].name,
                       slot |-> s, call |-> pending[s], outcome |-> e,
                       raised |-> r.raised, dispatched |-> dispatched]
    /\ pending' = [pending EXCEPT ![s] = Done]
    /\ UNCHANGED <<form, props>>

\* The engine call of slot s settles and validateField runs to its end: the
\* finally block dispatches the one updateValidateResult of the call.
ValidateFieldSettle(s) ==
    /\ pending[s].op = "validateField"
    /\ \E e \in Outcomes(pending[s].descriptor, pending[s].valueMap) :
         LET r == validateFieldCatch(e)
             action == [type |-> "updateValidateResult",
                        name |-> pending[s].name,
                        value |-> [isValid |-> r.isValid, errors |-> r.errors]]
             dispatched == <<action>>
         IN  /\ fields' = fieldsReducer(fields, action)
             /\ ev' = [op |-> "validateField.return", name |-> pending[s].name,
                       slot |-> s, call |-> pending[s], outcome |-> e,
                       raised |-> r.raised, dispatched |-> dispatched]
    /\ pending' = [pending EXCEPT ![s] = Done]
    /\ UNCHANGED <<form, props>>

----------------------------------------------------------------------------
(* validateAllFields and submitForm *)

\* A variant of validateAllFieldsCall that gives the engine the rules of
\* the fields that are valid so far only.
validateAllFieldsCallValidOnly(fs) ==
    [op |-> "validateAllFields",
     valueMap |-> [n \in DOMAIN fs |-> fs[n].value],
     descriptor |-> [n \in DOMAIN fs |->
                        IF fs[n].isValid THEN transfromRules(fs[n].rules, fs)
                        ELSE <<>>],
     rules |-> [n \in DOMAIN fs |-> fs[n].rules]]

\* What validateAllFields holds when it reaches its await: the value map,
\* the descriptor, and the rules of the closure's fields that the loop of
\* the catch block reads.
validateAllFieldsCall(fs) ==
    [op |-> "validateAllFields",
     valueMap |-> [n \in DOMAIN fs |-> fs[n].value],
     descriptor |-> [n \in DOMAIN fs |-> transfromRules(fs[n].rules, fs)],
     rules |-> [n \in DOMAIN fs |-> fs[n].rules]]

UpdateValidateResult(name, isValid, errors) ==
    [type |-> "updateValidateResult", name |-> name,
     value |-> [isValid |-> isValid, errors |-> errors]]

\* A variant of FieldResult that dispatches for failed fields only.
FieldResultFailedOnly(name, rules, errors) ==
    IF name \in DOMAIN errors
    THEN <<UpdateValidateResult(name, FALSE, errors[name])>>
    ELSE <<>>

\* A variant of FieldResult that treats every field without an entry as
\* having passed, whether it declared rules or not.
FieldResultAllPass(name, rules, errors) ==
    IF name \in DOMAIN errors
    THEN <<UpdateValidateResult(name, FALSE, errors[name])>>
    ELSE <<UpdateValidateResult(name, TRUE, <<>>)>>

\* A variant of FieldResult that marks a field with an entry as failed
\* without storing the entry.
FieldResultFlagOnly(name, rules, errors) ==
    IF name \in DOMAIN errors
    THEN <<UpdateValidateResult(name, FALSE, <<>>)>>
    ELSE IF Len(rules) > 0
    THEN <<UpdateValidateResult(name, TRUE, <<>>)>>
    ELSE <<>>

\* The body of each(fields, (value, name) => ...) for one field.
FieldResult(name, rules, errors) ==
    IF name \in DOMAIN errors
    THEN <<UpdateValidateResult(name, FALSE, errors[name])>>
    ELSE IF Len(rules) > 0
    THEN <<UpdateValidateResult(name, TRUE, <<>>)>>
    ELSE <<>>

RECURSIVE FieldResults(_, _, _)
\* each(fields, ...): the dispatches of the catch block, field after field.
FieldResults(rules, errors, i) ==
    IF i > Len(NameOrder) THEN <<>>
    ELSE (IF NameOrder[i] \in DOMAIN rules
          THEN FieldResult(NameOrder[i], rules[NameOrder[i]], errors)
          ELSE <<>>)
            \o FieldResults(rules, errors, i + 1)

\* try { await validate } catch (e) { ... }: isValid, errors and the
\* dispatches of the catch block.  With e.fields undefined, errors[name]
\* throws in the first iteration and the return of the finally block
\* discards the exception; nothing is dispatched.
validateAllFieldsCatch(call, e) ==
    IF e.settled = "resolved"
    THEN [isValid |-> TRUE, errors |-> EmptyObject, actions |-> <<>>]
    ELSE LET errors == Prop(e, "fields", UndefinedMap)
         IN  [isValid |-> FALSE,
              errors |-> errors,
              actions |-> IF errors = UndefinedMap THEN <<>>
                          ELSE FieldResults(call.rules, errors, 1)]

RECURSIVE DispatchAll(_, _, _)
\* The store after the dispatches actions[i..], in order.
DispatchAll(state, actions, i) ==
    IF i > Len(actions) THEN state
    ELSE DispatchAll(fieldsReducer(state, actions[i]), actions, i + 1)

\* A variant of finalForm that leaves isSubmitting as it is.
finalFormKeepSubmitting(r) ==
    Spread(form, [isValid |-> r.isValid, errors |-> r.errors])

\* A variant of finalForm that keeps the errors of the form when the call
\* passed.
finalFormKeepErrors(r) ==
    [isValid |-> r.isValid, isSubmitting |-> FALSE,
     errors |-> IF r.isValid THEN form.errors ELSE r.errors]

\* A variant of finalForm that leaves the form submitting when the call
\* failed.
finalFormSubmittingOnFailure(r) ==
    [isValid |-> r.isValid, isSubmitting |-> ~r.isValid, errors |-> r.errors]

\* setForm({ ...form, isSubmitting: false, isValid, errors }): the literal
\* sets every key of FormState, so nothing of the closure's form is left.
finalForm(r) ==
    [isValid |-> r.isValid, isSubmitting |-> FALSE, errors |-> r.errors]

\* A variant of submitFormCallbacks that tests the callbacks one by one.
submitFormCallbacksBoth(result) ==
    (IF "onFinish" \in DOMAIN props
     THEN <<[callback |-> "onFinish", values |-> result.values]>> ELSE <<>>)
    \o (IF ~result.isValid /\ "onFinishFailed" \in DOMAIN props
        THEN <<[callback |-> "onFinishFailed", values |-> result.values,
                errors |-> result.errors]>>
        ELSE <<>>)

\* submitForm after its await: the callbacks it invokes, in order.
submitFormCallbacks(result) ==
    IF result.isValid /\ "onFinish" \in DOMAIN props
    THEN <<[callback |-> "onFinish", values |-> result.values]>>
    ELSE IF ~result.isValid /\ "onFinishFailed" \in DOMAIN props
    THEN <<[callback |-> "onFinishFailed", values |-> result.values,
            errors |-> result.errors]>>
    ELSE <<>>

\* A variant of startForm that does not mark the form as submitting.
startFormUnmarked(f) == f

\* setForm({ ...form, isSubmitting: true })
startForm(f) == Spread(f, [isSubmitting |-> TRUE])

\* submitForm up to the await of the validateAllFields it calls.  A call of
\* validateAllFields through the ref is a submit of the form that has no
\* callbacks.  The step notes the return it follows at once, and the return
\* of a call notes it in turn when it follows the call's start at once: two
\* calls in sequence on a store nothing else touched.
SubmitForm ==
    /\ Free # {}
    /\ pending' = [pending EXCEPT ![NextSlot] = validateAllFieldsCall(fields)]
    /\ form' = startForm(form)
    /\ ev' = [op |-> "validateAllFields.start", slot |-> NextSlot,
              after |-> IF ev.op = "validateAllFields.return"
                        THEN ev ELSE Quiet]
    /\ UNCHANGED <<fields, props>>

\* A variant of ValidateAllFieldsSettle that returns the values the store
\* holds when the engine has settled.
ValidateAllFieldsSettleLiveValues(s) ==
    /\ pending[s].op = "validateAllFields"
    /\ \E e \in Outcomes(pending[s].descriptor, pending[s].valueMap) :
         LET r == validateAllFieldsCatch(pending[s], e)
             result == [isValid |-> r.isValid, errors |-> r.errors,
                        values |-> [n \in DOMAIN fields |->
                                        fields[n].value]]
         IN  /\ fields' = DispatchAll(fields, r.actions, 1)
             /\ form' = finalForm(r)
             /\ ev' = [op |-> "validateAllFields.return", slot |-> s,
                       call |-> pending[s], outcome |-> e, result |-> result,
                       callbacks |-> submitFormCallbacks(result),
                       after |-> IF ev.op = "validateAllFields.start"
                                    /\ ev.slot = s
                                 THEN ev.after ELSE Quiet]
    /\ pending' = [pending EXCEPT ![s] = Done]
    /\ UNCHANGED props

\* The engine call of slot s settles; validateAllFields runs to its return
\* and submitForm invokes its callback.
ValidateAllFieldsSettle(s) ==
    /\ pending[s].op = "validateAllFields"
    /\ \E e \in Outcomes(pending[s].descriptor, pending[s].valueMap) :
         LET r == validateAllFieldsCatch(pending[s], e)
             result == [isValid |-> r.isValid, errors |-> r.errors,
                        values |-> pending[s].valueMap]
         IN  /\ fields' = DispatchAll(fields, r.actions, 1)
             /\ form' = finalForm(r)
             /\ ev' = [op |-> "validateAllFields.return", slot |-> s,
                       call |-> pending[s], outcome |-> e, result |-> result,
                       callbacks |-> submitFormCallbacks(result),
                       after |-> IF ev.op = "validateAllFields.start"
                                    /\ ev.slot = s
                                 THEN ev.after ELSE Quiet]
    /\ pending' = [pending EXCEPT ![s] = Done]
    /\ UNCHANGED props

----------------------------------------------------------------------------
(* The form in use *)

Next ==
    \/ \E name \in Names : Mount(name)
    \/ \E name \in Names, value \in Values : OnValueUpdate(name, value)
    \/ \E name \in Names, value \in Values : SetFieldValue(name, value)
    \/ ResetFields
    \/ \E name \in Names : ValidateFieldStart(name)
    \/ \E s \in Slots : ValidateFieldSettle(s)
    \/ SubmitForm
    \/ \E s \in Slots : ValidateAllFieldsSettle(s)

Spec == Init /\ [][Next]_vars

\* The event loop runs the continuation of every call whose engine call has
\* settled, and the engine settles every call.
FairSpec ==
    /\ Spec
    /\ \A s \in Slots : WF_vars(ValidateFieldSettle(s))
    /\ \A s \in Slots : WF_vars(ValidateAllFieldsSettle(s))

----------------------------------------------------------------------------
(* The field store on its own: dispatch, as FormContext hands it out, with *)
(* any action for any name, from the empty store                           *)

\* The records an addField action carries: what a FormItem builds, for either
\* initial value and with or without a rule.
RecordOptions(name) ==
    {[label |-> "P", name |-> name, value |-> v, rules |-> r,
      errors |-> <<>>, isValid |-> TRUE] :
        v \in Values, r \in {<<>>, <<Required>>}}

\* The results an updateValidateResult action carries.
ResultOptions ==
    {[isValid |-> TRUE, errors |-> <<>>],
     [isValid |-> FALSE, errors |-> <<RequiredMessage["p"]>>]}

ReducerNames == {"p", "g"}

\* dispatch(action)
Dispatch(action) ==
    /\ fields' = fieldsReducer(fields, action)
    /\ ev' = [op |-> "dispatch", action |-> action, before |-> fields]
    /\ UNCHANGED <<form, props, pending>>

DispatchAddField ==
    \E name \in ReducerNames : \E record \in RecordOptions(name) :
        Dispatch([type |-> "addField", name |-> name, value |-> record])

DispatchUpdateValue ==
    \E name \in ReducerNames, value \in Values :
        Dispatch([type |-> "updateValue", name |-> name, value |-> value])

DispatchUpdateValidateResult ==
    \E name \in ReducerNames, result \in ResultOptions :
        Dispatch([type |-> "updateValidateResult", name |-> name,
                  value |-> result])

ReducerInit ==
    /\ fields = EmptyObject
    /\ form = [isValid |-> TRUE, isSubmitting |-> FALSE, errors |-> EmptyObject]
    /\ props = PlainForm
    /\ pending = [s \in Slots |-> Idle]
    /\ ev = Quiet

ReducerNext ==
    \/ DispatchAddField
    \/ DispatchUpdateValue
    \/ DispatchUpdateValidateResult

ReducerSpec == ReducerInit /\ [][ReducerNext]_vars

----------------------------------------------------------------------------
(* Initial values: a form of two items under any initialValues, with the   *)
(* edits and resets of its fields                                          *)

\* The initialValues a form can be given for p and n: a string, the empty
\* string or the number 0 for each.
InitialValuesOptions == [{"p", "n"} -> {"x", "", Zero}]

ResetForms ==
    {[initialValues |-> initialValues, children |-> PlainForm.children] :
        initialValues \in InitialValuesOptions}

ResetInit ==
    /\ fields = EmptyObject
    /\ form = [isValid |-> TRUE, isSubmitting |-> FALSE, errors |-> EmptyObject]
    /\ props \in ResetForms
    /\ pending = [s \in Slots |-> Idle]
    /\ ev = Quiet

ResetNext ==
    \/ \E name \in Names : Mount(name)
    \/ \E name \in Names, value \in Values : OnValueUpdate(name, value)
    \/ \E name \in Names, value \in Values : SetFieldValue(name, value)
    \/ ResetFields

ResetSpec == ResetInit /\ [][ResetNext]_vars

----------------------------------------------------------------------------
(* The field store: properties *)

FieldDetailKeys == {"name", "value", "rules", "isValid", "errors"}

\* The last step dispatched an update action for a name the store did not
\* hold before the step.
UpdateOfUnknown ==
    /\ ev'.op = "dispatch"
    /\ ev'.action.type \in {"updateValue", "updateValidateResult"}
    /\ ev'.action.name \notin DOMAIN fields

\* C9: updateValue and updateValidateResult for a name that is not in the
\* store leave the store as it was: no key is added, no record changes.
C9_UnknownNameIsNoOp == [][UpdateOfUnknown => fields' = fields]_vars

\* C10: every key of the store maps to a record that has name, value, rules,
\* isValid and errors.
C10_RecordsComplete ==
    \A name \in DOMAIN fields : FieldDetailKeys \subseteq DOMAIN fields[name]

\* The last step dispatched an action of the given type for a name the
\* store held before the step.
DispatchedOnKnown(type) ==
    /\ ev'.op = "dispatch"
    /\ ev'.action.type = type
    /\ ev'.action.name \in DOMAIN fields

\* The step left every record but the one of the action's name as it was,
\* and added or removed no name.
OthersUnchanged ==
    /\ DOMAIN fields' = DOMAIN fields
    /\ \A other \in DOMAIN fields \ {ev'.action.name} :
            fields'[other] = fields[other]

\* The step left the keys of the record of the action's name that are not in
\* keys as they were, and the record has its old keys and those of keys.
OnlyKeysChanged(keys) ==
    LET name == ev'.action.name
    IN  /\ DOMAIN fields'[name] = DOMAIN fields[name] \cup keys
        /\ \A k \in DOMAIN fields[name] \ keys :
                fields'[name][k] = fields[name][k]

\* C11: addField for a name the store already holds, whatever updates the
\* name has seen since it was added, leaves the name with exactly the record
\* of the action and every other field as it was.
C11_AddFieldOverwrites ==
    [][DispatchedOnKnown("addField") =>
            /\ fields'[ev'.action.name] = ev'.action.value
            /\ OthersUnchanged]_vars

\* An addField has replaced a record that differed from the new one in its
\* value and in the validation result an updateValidateResult had stored.
C11_Witness ==
    /\ ev.op = "dispatch"
    /\ ev.action.type = "addField"
    /\ ev.action.name \in DOMAIN ev.before
    /\ FieldDetailKeys \subseteq DOMAIN ev.before[ev.action.name]
    /\ ev.before[ev.action.name].isValid = FALSE
    /\ ev.before[ev.action.name].value # ev.action.value.value
    /\ fields[ev.action.name] = ev.action.value
    /\ DOMAIN fields # {ev.action.name}

\* C12: updateValue(x, v) on a name of the store makes getFieldValue(x)
\* return v and changes nothing but x's value: x's other keys and every
\* other field are as before.
C12_UpdateValueFrame ==
    [][DispatchedOnKnown("updateValue") =>
            /\ getFieldValue(fields', ev'.action.name) = ev'.action.value
            /\ OnlyKeysChanged({"value"})
            /\ OthersUnchanged]_vars

\* An updateValue has changed the value of a registered field that held a
\* failed validation result, next to another field.
C12_Witness ==
    /\ ev.op = "dispatch"
    /\ ev.action.type = "updateValue"
    /\ ev.action.name \in DOMAIN ev.before
    /\ FieldDetailKeys \subseteq DOMAIN ev.before[ev.action.name]
    /\ ev.before[ev.action.name].value # ev.action.value
    /\ fields[ev.action.name].value = ev.action.value
    /\ fields[ev.action.name].isValid = FALSE
    /\ DOMAIN fields # {ev.action.name}

\* C13: updateValidateResult(x, {isValid, errors}) on a name of the store
\* sets x's isValid and errors to the given ones and changes nothing else:
\* x's name, value and rules and every other field are as before.
C13_UpdateValidateResultFrame ==
    [][DispatchedOnKnown("updateValidateResult") =>
            /\ fields'[ev'.action.name].isValid = ev'.action.value.isValid
            /\ fields'[ev'.action.name].errors = ev'.action.value.errors
            /\ OnlyKeysChanged({"isValid", "errors"})
            /\ OthersUnchanged]_vars

\* An updateValidateResult has stored a failed result in a registered field
\* that was valid and holds a value and a rule, next to another field.
C13_Witness ==
    /\ ev.op = "dispatch"
    /\ ev.action.type = "updateValidateResult"
    /\ ev.action.name \in DOMAIN ev.before
    /\ FieldDetailKeys \subseteq DOMAIN ev.before[ev.action.name]
    /\ ev.before[ev.action.name].isValid = TRUE
    /\ fields[ev.action.name].isValid = FALSE
    /\ fields[ev.action.name].value = "x"
    /\ fields[ev.action.name].rules = <<Required>>
    /\ DOMAIN fields # {ev.action.name}

----------------------------------------------------------------------------
(* validateAllFields: properties *)

\* The last step was the return of a validateAllFields call.
AllReturned == ev.op = "validateAllFields.return"

\* The engine rejected with a validation error, which carries the mapping.
RejectedWithFields == AllReturned /\ "fields" \in DOMAIN ev.outcome

HasRules(name) == Len(fields[name].rules) > 0

Cleared(name) == fields[name].isValid = TRUE /\ fields[name].errors = <<>>

\* C1: when validateAllFields returns isValid = true, every field of the
\* store that declared a rule has isValid = true and errors = [].
C1_SuccessClearsEveryField ==
    (AllReturned /\ ev.result.isValid) =>
        \A name \in DOMAIN fields : HasRules(name) => Cleared(name)

\* What C2 says of one field when the engine rejected with a mapping.
Redistributed(name) ==
    /\ name \in DOMAIN ev.outcome.fields =>
            /\ fields[name].isValid = FALSE
            /\ fields[name].errors = ev.outcome.fields[name]
    /\ (name \notin DOMAIN ev.outcome.fields /\ HasRules(name)) => Cleared(name)

\* C2, as stated: when the engine rejects, validateAllFields returns
\* isValid = false with the engine's mapping as errors, and every field of the
\* store that has an entry in the mapping is invalid with the entry as its
\* errors, and every field with a rule and no entry is valid with no errors.
C2_RejectionRedistributesAll ==
    RejectedWithFields =>
        /\ ev.result.isValid = FALSE
        /\ ev.result.errors = ev.outcome.fields
        /\ \A name \in DOMAIN fields : Redistributed(name)

\* C2, amended: the same, for every field that was registered when
\* validateAllFields was called.
C2_RejectionRedistributes ==
    RejectedWithFields =>
        /\ ev.result.isValid = FALSE
        /\ ev.result.errors = ev.outcome.fields
        /\ \A name \in DOMAIN ev.call.rules : Redistributed(name)

\* A rejection where one field of the call has an entry and another field
\* with a rule has none.
C2_Witness ==
    /\ RejectedWithFields
    /\ \E a, b \in DOMAIN ev.call.rules :
            /\ a \in DOMAIN ev.outcome.fields
            /\ b \notin DOMAIN ev.outcome.fields
            /\ HasRules(b)

\* C6: a submit of the form with both callbacks invokes exactly one callback
\* when its validateAllFields returns, onFinish(values) if isValid and
\* onFinishFailed(values, errors) otherwise, with the values and errors of its
\* own call; and a submit is possible while another is in flight.
C6_ExactlyOneCallback ==
    /\ (AllReturned /\ {"onFinish", "onFinishFailed"} \subseteq DOMAIN props) =>
            /\ Len(ev.callbacks) = 1
            /\ ev.result.values = ev.call.valueMap
            /\ ev.callbacks[1] =
                IF ev.result.isValid
                THEN [callback |-> "onFinish", values |-> ev.result.values]
                ELSE [callback |-> "onFinishFailed", values |-> ev.result.values,
                      errors |-> ev.result.errors]
    /\ (Free # {}) => ENABLED SubmitForm

\* A submit has invoked its callback while another submit is in flight.
C6_Witness ==
    /\ AllReturned
    /\ Len(ev.callbacks) = 1
    /\ \E s \in Slots : pending[s].op = "validateAllFields"

\* C7, as stated: isSubmitting is true in every state in which a
\* validateAllFields call is in flight.
C7_SubmittingWhileInFlight ==
    \A s \in Slots : pending[s].op = "validateAllFields" => form.isSubmitting

\* A step that starts a validateAllFields call.
AllStarts ==
    \E s \in Slots : pending[s] = Idle /\ pending'[s].op = "validateAllFields"

\* C7, amended: the start of a validateAllFields call sets isSubmitting to
\* true, and it stays true until a validateAllFields call returns, which is
\* the call's own return when no other call overlaps with it.
C7_SubmittingUntilAReturn ==
    [][/\ AllStarts => form'.isSubmitting
       /\ (form.isSubmitting /\ ~form'.isSubmitting) =>
                ev'.op = "validateAllFields.return"]_vars

\* A validateAllFields call is in flight and isSubmitting is true.
C7_Witness ==
    /\ form.isSubmitting
    /\ \E s \in Slots : pending[s].op = "validateAllFields"

\* Every field of the call satisfies its resolved rules.
AllSatisfied(call) ==
    \A name \in DOMAIN call.descriptor :
        FieldErrors(call.descriptor, call.valueMap, name) = <<>>

\* C8: every validateAllFields call returns; it returns { isValid, errors,
\* values } with isSubmitting false, and isValid = true, errors = {} when the
\* engine ran and every field satisfies its rules.
C8_AllFieldsReturns ==
    /\ \A s \in Slots :
            (pending[s].op = "validateAllFields") ~> (pending[s] = Done)
    /\ [](AllReturned =>
            /\ form.isSubmitting = FALSE
            /\ DOMAIN ev.result = {"isValid", "errors", "values"}
            /\ (AllSatisfied(ev.call) /\ ev.outcome # Fault) =>
                    /\ ev.result.isValid = TRUE
                    /\ ev.result.errors = EmptyObject)

\* A call on a form with registered fields that all satisfy their rules has
\* returned isValid = true.
C8_Witness ==
    /\ AllReturned
    /\ DOMAIN ev.call.valueMap # {}
    /\ ev.result.isValid
    /\ form.isSubmitting = FALSE

\* The per-field validation results of a store.
Verdicts(fs) ==
    [name \in DOMAIN fs |->
        [isValid |-> fs[name].isValid, errors |-> fs[name].errors]]

\* The call read the values and rules the store holds now: no field was
\* registered and no value edited since the call started.
StoreAsAt(call) ==
    /\ call.valueMap = [name \in DOMAIN fields |-> fields[name].value]
    /\ call.rules = [name \in DOMAIN fields |-> fields[name].rules]

\* The step is the return of a validateAllFields call that was started right
\* after another call's return and returns right after its own start, on
\* the store the first call read, and the engine gave a verdict both times.
SecondInSequence ==
    /\ ev.op = "validateAllFields.start"
    /\ ev.after.op = "validateAllFields.return"
    /\ StoreAsAt(ev.after.call)
    /\ ev'.op = "validateAllFields.return"
    /\ ev'.slot = ev.slot
    /\ ev.after.outcome # Fault
    /\ ev'.outcome # Fault

\* C14: of two validateAllFields calls in sequence with nothing in between,
\* the second returns the isValid, errors and values of the first and
\* leaves every field's isValid and errors as the first left them.
C14_AllFieldsIdempotent ==
    [][SecondInSequence =>
            /\ ev'.result = ev.after.result
            /\ Verdicts(fields') = Verdicts(fields)]_vars

\* The second of two calls in sequence has returned with the failed result
\* of the first, and the store holds the failed field.
C14_Witness ==
    /\ AllReturned
    /\ ev.after.op = "validateAllFields.return"
    /\ ev.outcome # Fault
    /\ ev.after.outcome # Fault
    /\ StoreAsAt(ev.after.call)
    /\ ~ev.after.result.isValid
    /\ ev.result = ev.after.result
    /\ \E name \in DOMAIN fields : ~fields[name].isValid

\* No slot above s holds a call: s is the call that was started last.
StartedLast(pend, s) == \A t \in Slots : t > s => pend[t] = Idle

\* The step is the return of the last validateAllFields call in flight, the
\* call that was started last, with a verdict of the engine.
LatestReturns ==
    /\ ev'.op = "validateAllFields.return"
    /\ ev'.outcome # Fault
    /\ StartedLast(pending', ev'.slot)

\* The step is the return of a validateAllFields call right after the return
\* of the one that was started last, both with a verdict of the engine.
EarlierReturnsLast ==
    /\ ev.op = "validateAllFields.return"
    /\ ev'.op = "validateAllFields.return"
    /\ ev'.slot < ev.slot
    /\ StartedLast(pending, ev.slot)
    /\ ev.outcome # Fault
    /\ ev'.outcome # Fault

Reflects(f, result) ==
    f.isValid = result.isValid /\ f.errors = result.errors

\* C15: before any call FormState.isValid is true and FormState.errors is
\* {}; after the return of the validateAllFields call that was started last,
\* and after the return of an earlier call that finishes after it,
\* FormState.isValid and FormState.errors are those of the call that was
\* started last.
C15_FormReflectsLatestStarted ==
    /\ []((\A s \in Slots : pending[s] = Idle) =>
            Reflects(form, [isValid |-> TRUE, errors |-> EmptyObject]))
    /\ [][/\ LatestReturns => Reflects(form', ev'.result)
          /\ EarlierReturnsLast => Reflects(form', ev.result)]_vars

\* C18: an engine call that fails with an unexpected fault, one that is no
\* validation error and carries no errors and no fields, is not absorbed:
\* validateField raises it and validateAllFields does not return a result.
C18_FaultReachesCaller ==
    /\ (ev.op = "validateField.return" /\ ev.outcome = Fault) => ev.raised
    /\ ev.op = "validateAllFields.return" => ev.outcome # Fault

\* The per-field mapping of the engine's outcome; none when it resolved or
\* failed without one.
Mapping(outcome) == Prop(outcome, "fields", EmptyObject)

\* C19: the return of validateAllFields, whether the engine resolved or
\* rejected, leaves isValid and errors of every registered field that has
\* no rules and no entry in the engine's mapping as they were.
C19_NoRulesUntouched ==
    [][ev'.op = "validateAllFields.return" =>
        \A name \in DOMAIN fields :
            (fields[name].rules = <<>>
                /\ name \notin DOMAIN Mapping(ev'.outcome)) =>
                    /\ fields'[name].isValid = fields[name].isValid
                    /\ fields'[name].errors = fields[name].errors]_vars

\* validateAllFields has failed on p and returned, and n, which the call
\* read and which has no rules, still holds the failed result it had.
C19_Witness ==
    /\ RejectedWithFields
    /\ "p" \in DOMAIN ev.outcome.fields
    /\ "n" \in DOMAIN ev.call.rules
    /\ "n" \in DOMAIN fields
    /\ fields["n"].rules = <<>>
    /\ fields["n"].isValid = FALSE
    /\ fields["p"].isValid = FALSE

----------------------------------------------------------------------------
(* validateField and the rule resolver: properties *)

FieldReturned == ev.op = "validateField.return"

\* C3: a validateField call that reached the engine raises nothing, however
\* the engine call settles: a rejection of any kind ends as a stored result
\* with isValid = false.
C3_ValidateFieldNeverRaises ==
    FieldReturned =>
        /\ ev.raised = FALSE
        /\ {"isValid", "errors"} \subseteq DOMAIN fields[ev.name]
        /\ fields[ev.name].isValid = (ev.outcome.settled = "resolved")

\* The engine call of a validateField failed with an unexpected fault.
C3_Witness == FieldReturned /\ ev.outcome = Fault

\* The errors the engine reports for the field's value and rules as they
\* are in the store now.
CurrentErrors(name) ==
    SeriesErrors(transfromRules(fields[name].rules, fields), name,
                 fields[name].value, 1)

\* The value and the resolved rules the call validated are still those of
\* the store: nothing that matters was interleaved.
InputsCurrent ==
    /\ ev.call.valueMap[ev.name] = fields[ev.name].value
    /\ ev.call.descriptor[ev.name] =
            transfromRules(fields[ev.name].rules, fields)

\* C4: after validateField the field holds isValid = true, errors = [] when
\* the engine accepted, and isValid = false with the engine's non-empty error
\* list when it rejected; with nothing interleaved that is the engine's
\* verdict on the field's current value.
C4_ValidateFieldStoresVerdict ==
    (FieldReturned /\ ev.outcome # Fault) =>
        /\ ev.outcome.settled = "resolved" => Cleared(ev.name)
        /\ ev.outcome.settled = "rejected" =>
                /\ fields[ev.name].isValid = FALSE
                /\ fields[ev.name].errors = ev.outcome.errors
                /\ fields[ev.name].errors # <<>>
        /\ InputsCurrent =>
                /\ fields[ev.name].errors = CurrentErrors(ev.name)
                /\ fields[ev.name].isValid = (CurrentErrors(ev.name) = <<>>)

\* The required field p, empty, has been validated.
C4_Witness ==
    /\ FieldReturned
    /\ ev.name = "p"
    /\ ev.outcome # Fault
    /\ fields["p"].value = ""
    /\ fields["p"].isValid = FALSE
    /\ fields["p"].errors = <<RequiredMessage["p"]>>

\* The calls that are suspended in validateField.
InValidateField(s) == pending[s].op = "validateField"

\* C16: every validateField call on a registered field completes once the
\* engine has settled, however it settles; a suspended call leaves its
\* await through its return only and returns once; and the return has
\* dispatched exactly one updateValidateResult, for the field of the call,
\* which the store then holds.
C16_ValidateFieldCompletes ==
    /\ \A s \in Slots : InValidateField(s) ~> (pending[s] = Done)
    /\ [][\A s \in Slots :
            /\ (InValidateField(s) /\ pending'[s] # pending[s]) =>
                    /\ pending'[s] = Done
                    /\ ev'.op = "validateField.return"
                    /\ ev'.slot = s
            /\ pending[s] = Done => pending'[s] = Done]_vars
    /\ [](FieldReturned =>
            /\ Len(ev.dispatched) = 1
            /\ ev.dispatched[1].type = "updateValidateResult"
            /\ ev.dispatched[1].name = ev.name
            /\ fields[ev.name].isValid = ev.dispatched[1].value.isValid
            /\ fields[ev.name].errors = ev.dispatched[1].value.errors)

\* A validateField call whose engine call rejected has returned and stored
\* its result, after an edit of the field while the call was suspended.
C16_Witness ==
    /\ FieldReturned
    /\ ev.outcome.settled = "rejected"
    /\ ev.outcome # Fault
    /\ fields[ev.name].value # ev.call.valueMap[ev.name]
    /\ fields[ev.name].errors = ev.outcome.errors

\* The step is the return of a validateField call with the engine's verdict
\* on a value that is no longer the value of the field.
StaleReturn ==
    /\ ev'.op = "validateField.return"
    /\ ev'.outcome # Fault
    /\ fields[ev'.name].value # ev'.call.valueMap[ev'.name]

\* C17: a validateField call that returns after the field's value was
\* changed keeps the new value and writes the isValid and errors the engine
\* computed for the value the call was started on; nothing discards them.
C17_StaleResultIsWritten ==
    [][StaleReturn =>
        /\ ev'.outcome = Validate(ev'.call.descriptor, ev'.call.valueMap)
        /\ fields'[ev'.name].value = fields[ev'.name].value
        /\ fields'[ev'.name].isValid = (ev'.outcome.settled = "resolved")
        /\ fields'[ev'.name].errors =
                Prop(ev'.outcome, "errors", <<>>)]_vars

\* The store holds a field with the value of a later edit and the result of
\* the value before it, which is not the result the engine gives for the
\* value the field has.
C17_Witness ==
    /\ FieldReturned
    /\ ev.outcome # Fault
    /\ fields[ev.name].value # ev.call.valueMap[ev.name]
    /\ fields[ev.name].rules = <<Required>>
    /\ fields[ev.name].isValid = (ev.outcome.settled = "resolved")
    /\ fields[ev.name].isValid # (CurrentErrors(ev.name) = <<>>)

\* The step is a step of validateAllFields: its start or its return.
ByValidateAllFields ==
    \E s \in Slots :
        \/ pending[s] = Idle /\ pending'[s].op = "validateAllFields"
        \/ pending[s].op = "validateAllFields" /\ pending'[s] = Done

\* C20: FormState changes in steps of validateAllFields only: registering a
\* field, the updates of the store, setFieldValue, resetFields and
\* validateField leave isValid, isSubmitting and errors as they were.
C20_OnlyValidateAllFieldsChangesForm ==
    [][form' # form => ByValidateAllFields]_vars

\* A validateField call has found its field invalid and FormState.isValid
\* is true as before.
C20_Witness ==
    /\ FieldReturned
    /\ fields[ev.name].isValid = FALSE
    /\ form = [isValid |-> TRUE, isSubmitting |-> FALSE, errors |-> EmptyObject]

\* The value of p in the store, as the accessor of a rule generator sees it.
LatestP == IF "p" \in DOMAIN fields THEN fields["p"].value ELSE Undefined

\* A step that starts a call whose descriptor has the cross-field rule of c.
StartsWithC(s) ==
    /\ pending[s] = Idle
    /\ pending'[s] # Idle
    /\ "c" \in DOMAIN pending'[s].descriptor

\* C5: every validateField and validateAllFields call resolves the rule of c
\* with the value p has in the store when the call is made; the call finds c
\* valid when c equals that value, and invalid when it differs.
C5_RulesResolvedAtCallTime ==
    [][\A s \in Slots :
        /\ StartsWithC(s) =>
                pending'[s].descriptor["c"] =
                    <<[validator |-> "equalTo", expected |-> LatestP]>>
        /\ (pending[s].op = "validateField" /\ pending[s].name = "c"
                /\ pending'[s] = Done /\ ev'.outcome # Fault) =>
                fields'["c"].isValid =
                    (pending[s].valueMap["c"] = pending[s].descriptor["c"][1].expected)
        /\ (pending[s].op = "validateAllFields" /\ "c" \in DOMAIN pending[s].descriptor
                /\ pending'[s] = Done /\ ev'.outcome # Fault) =>
                ("c" \notin DOMAIN ev'.result.errors) =
                    (pending[s].valueMap["c"] = pending[s].descriptor["c"][1].expected)
      ]_vars

\* c has been validated and found valid against a value of p that is not the
\* value p was registered with.
C5_Witness ==
    /\ FieldReturned
    /\ ev.name = "c"
    /\ fields["c"].isValid
    /\ ev.call.descriptor["c"][1].expected = ""
    /\ InitialValue("p") = "x"

----------------------------------------------------------------------------
(* The store through the form: properties *)

\* C21: no step changes the name or the rules of a registered field: the
\* updates of the store, setFieldValue, resetFields, validateField and
\* validateAllFields keep them, a rule generator stays the generator it was
\* registered as, and a FormItem that registers again brings the rules of
\* its props.
C21_NameAndRulesFixed ==
    [][\A name \in DOMAIN fields :
        /\ name \in DOMAIN fields'
        /\ fields'[name].name = fields[name].name
        /\ fields'[name].rules = fields[name].rules
        /\ fields'[name].rules = Prop(ItemProps[name], "rules", <<>>)]_vars

\* c, registered with a rule generator, has been validated on its own after
\* an edit and still holds the generator.
C21_Witness ==
    /\ FieldReturned
    /\ ev.name = "c"
    /\ ev.call.descriptor["c"] = <<CallRule(EqualTo("p"), fields)>>
    /\ fields["c"].value = "x"
    /\ fields["c"].rules = <<EqualTo("p")>>
    /\ IsFunction(fields["c"].rules[1])

\* The step starts a validateAllFields call in slot s.
StartsAll(s) == pending[s] = Idle /\ pending'[s].op = "validateAllFields"

\* C22: validateAllFields takes its value map from the store when it is
\* called, gives that map to the engine, and returns it as values, to the
\* callback of submitForm too, whatever the store holds by then; the values
\* onFinish receives satisfy the rules the call resolved.
C22_ReturnsValidatedSnapshot ==
    /\ [][\A s \in Slots : StartsAll(s) =>
            pending'[s].valueMap =
                [name \in DOMAIN fields |-> fields[name].value]]_vars
    /\ [](AllReturned =>
            /\ ev.result.values = ev.call.valueMap
            /\ ev.outcome \in Outcomes(ev.call.descriptor, ev.result.values)
            /\ \A i \in 1..Len(ev.callbacks) :
                    /\ ev.callbacks[i].values = ev.call.valueMap
                    /\ ev.callbacks[i].callback = "onFinish" =>
                            Validate(ev.call.descriptor,
                                     ev.callbacks[i].values).settled = "resolved")

\* onFinish has received the values that passed, and the store holds an
\* edit of p that was made while the engine call was pending and that the
\* rule of p rejects.
C22_Witness ==
    /\ AllReturned
    /\ Len(ev.callbacks) = 1
    /\ ev.callbacks[1].callback = "onFinish"
    /\ "p" \in DOMAIN ev.callbacks[1].values
    /\ ev.callbacks[1].values["p"] = "x"
    /\ "p" \in DOMAIN fields
    /\ fields["p"].value = ""

\* C23: with an engine that reports at least one error for each field it
\* rejects, so that no error list is undefined, a registered field has
\* isValid = false exactly when its errors are not empty, in every state
\* of the form.
C23_InvalidIffErrors ==
    \A name \in DOMAIN fields :
        fields[name].errors # UndefinedList =>
            (fields[name].isValid = FALSE <=> fields[name].errors # <<>>)

\* validateAllFields has failed on one field, which holds its errors, and
\* passed another that has a rule, which holds none.
C23_Witness ==
    /\ RejectedWithFields
    /\ \E name \in DOMAIN fields :
            /\ ~fields[name].isValid
            /\ name \in DOMAIN ev.outcome.fields
            /\ fields[name].errors = ev.outcome.fields[name]
            /\ fields[name].errors \notin {<<>>, UndefinedList}
    /\ \E name \in DOMAIN fields :
            /\ HasRules(name)
            /\ fields[name].isValid
            /\ fields[name].errors = <<>>

\* C24: with an engine whose rejection carries a per-field mapping that is
\* not empty, so that FormState.errors is never undefined,
\* FormState.isValid is true exactly when FormState.errors is the empty
\* mapping, in every state of the form.
C24_FormValidIffNoErrors ==
    form.errors # UndefinedMap =>
        (form.isValid <=> form.errors = EmptyObject)

\* validateAllFields has failed and FormState holds the engine's mapping.
C24_Witness ==
    /\ RejectedWithFields
    /\ ~form.isValid
    /\ form.errors = ev.outcome.fields
    /\ form.errors \notin {EmptyObject, UndefinedMap}

\* The step is a step of the validateField call of slot s: its start or its
\* return.
ByValidateField(s) ==
    \/ pending[s] = Idle /\ pending'[s].op = "validateField"
    \/ pending[s].op = "validateField" /\ pending'[s] = Done

\* The record without its validation result.
Unvalidated(record) ==
    [k \in DOMAIN record \ {"isValid", "errors"} |-> record[k]]

\* C25: the steps of validateField(x), whatever was interleaved with them,
\* add and remove no field, leave the record of every other field as it
\* was, and leave x's own value, rules and name as they were.
C25_ValidateFieldFrame ==
    [][\A s \in Slots : ByValidateField(s) =>
        /\ pending[s] = Idle => fields' = fields
        /\ pending[s] # Idle =>
                /\ DOMAIN fields' = DOMAIN fields
                /\ \A name \in DOMAIN fields :
                        /\ Unvalidated(fields'[name]) = Unvalidated(fields[name])
                        /\ name # pending[s].name =>
                                fields'[name] = fields[name]]_vars

\* validateField has failed p next to a field that was edited while the
\* call was pending and that holds a failed result of its own.
C25_Witness ==
    /\ FieldReturned
    /\ ev.name = "p"
    /\ ~fields["p"].isValid
    /\ \E other \in DOMAIN fields \ {"p"} :
            /\ fields[other].value = "x"
            /\ ~fields[other].isValid

\* The step starts a validateField call in slot s.
StartsField(s) == pending[s] = Idle /\ pending'[s].op = "validateField"

\* C26: validateField(name) for a name that is not registered throws before
\* it has built anything for the engine: no call is suspended for such a
\* name, and the step that throws leaves the store, FormState and the
\* suspended calls as they were, with no record for the name.
C26_UnregisteredFails ==
    [][/\ \A s \in Slots : StartsField(s) =>
                pending'[s].name \in DOMAIN fields
       /\ ev'.op = "validateField.throw" =>
                /\ ev'.raised
                /\ ev'.name \notin DOMAIN fields'
                /\ fields' = fields
                /\ form' = form
                /\ pending' = pending]_vars

\* validateField has thrown for a name that is not registered, in a form
\* that has a registered field and a call in flight.
C26_Witness ==
    /\ ev.op = "validateField.throw"
    /\ ev.raised
    /\ ev.name \notin DOMAIN fields
    /\ fields # EmptyObject
    /\ \E s \in Slots : pending[s] \notin {Idle, Done}

\* The step is the return of a validateField or validateAllFields call.
Returns ==
    ev'.op \in {"validateField.return", "validateAllFields.return"}

\* C27: the return of validateField or validateAllFields leaves the value
\* of every field as the store holds it, the value of an edit made during
\* the engine call included; it adds and removes no field.
C27_ResultKeepsValue ==
    [][Returns =>
        /\ DOMAIN fields' = DOMAIN fields
        /\ \A name \in DOMAIN fields :
                fields'[name].value = fields[name].value]_vars

\* validateAllFields has failed p on a value that an edit has replaced while
\* the engine call was pending; p holds the new value and the failure.
C27_Witness ==
    /\ RejectedWithFields
    /\ "p" \in DOMAIN ev.outcome.fields
    /\ ev.call.valueMap["p"] = ""
    /\ fields["p"].value = "x"
    /\ fields["p"].isValid = FALSE
    /\ fields["p"].errors = ev.outcome.fields["p"]

\* No validateAllFields call is suspended.
NoneInFlight == \A s \in Slots : pending[s].op # "validateAllFields"

\* C28: whenever no validateAllFields call is in flight,
\* FormState.isSubmitting is false, however many calls there were, in
\* sequence or overlapping, and in whatever order they returned.
C28_NotSubmittingWhenIdle == NoneInFlight => form.isSubmitting = FALSE

\* Every call of the run has returned, the one that was started first last
\* of all and with a failure, and the form is not submitting.
C28_Witness ==
    /\ AllReturned
    /\ ev.slot = 1
    /\ ~ev.result.isValid
    /\ \A s \in Slots : pending[s] = Done
    /\ form.isSubmitting = FALSE

\* The initialValues of the form; none when the prop was not given.
Inits == Prop(props, "initialValues", EmptyObject)

Registers(name) == name \notin DOMAIN fields /\ name \in DOMAIN fields'

\* C30: for every field that initialValues names, whatever the initial
\* value, the empty string and the number 0 included, the value stored at
\* registration is initialValues[name], and resetFields sets the field to
\* the value a registration stores.
C30_InitialValuesAlike ==
    [][/\ \A name \in DOMAIN Inits :
            Registers(name) => fields'[name].value = Inits[name]
       /\ ev'.op = "resetFields" =>
            \A name \in DOMAIN fields \cap DOMAIN Inits :
                fields'[name].value = FieldRecord(name).value]_vars

====
